---------------------------- MODULE Spec2Model ----------------------------
(***************************************************************************)
(* windlass: artifact download / upload / build under the retry and        *)
(* fall-back policies (src/windlass/generic.py, src/windlass/images.py).   *)
(*                                                                         *)
(* Strings are sequences of one-character strings, so that rstrip, rfind,  *)
(* basename, startswith, fnmatch and clean_tag are computed as the code    *)
(* computes them.                                                          *)
(***************************************************************************)
EXTENDS Integers, Sequences, FiniteSets, TLC

\* ------------------------------------------------------------------ bounds
MaxRetries == 3
MaxCands == 3
MaxStream == 2
MaxTagIn == 2

\* ------------------------------------------------------- program constants
MaxTagLen == 128
HTTP_OK == 200
HTTP_CREATED == 201

\* ------------------------------------------------------------------ strings
\* Python's None (a value that is not a string).
NONE == <<"<None>">>

\* The empty string.
EMPTY == <<>>

\* Python truthiness of an optional string: None and '' are falsy.
Truthy(x) == x # NONE /\ x # EMPTY

\* '%s' % x
Fmt(x) == IF x = NONE THEN <<"N", "o", "n", "e">> ELSE x

\* x or y
OrElse(x, y) == IF Truthy(x) THEN x ELSE y

Min(a, b) == IF a < b THEN a ELSE b

RECURSIVE RStrip(_)
\* s.rstrip('/')
RStrip(s) ==
    IF Len(s) > 0 /\ s[Len(s)] = "/" THEN RStrip(SubSeq(s, 1, Len(s) - 1)) ELSE s

RECURSIVE RFindFrom(_, _)
RFindFrom(s, i) ==
    IF i = 0 THEN 0 ELSE IF s[i] = "/" THEN i ELSE RFindFrom(s, i - 1)

\* s.rfind('/') + 1: the 1-based position of the last '/', 0 when there is none.
RFind(s) == RFindFrom(s, Len(s))

\* s.split('/')[-1], also os.path.basename(s)
Basename(s) == SubSeq(s, RFind(s) + 1, Len(s))

\* s.startswith(p)
StartsWith(s, p) == Len(s) >= Len(p) /\ SubSeq(s, 1, Len(p)) = p

RECURSIVE Fnmatch(_, _)
\* fnmatch.fnmatch(name, pat) for patterns made of literals, '?' and '*'
Fnmatch(name, pat) ==
    IF pat = <<>> THEN name = <<>>
    ELSE IF Head(pat) = "*"
         THEN Fnmatch(name, Tail(pat))
              \/ (name # <<>> /\ Fnmatch(Tail(name), pat))
         ELSE /\ name # <<>>
              /\ (Head(pat) = "?" \/ Head(pat) = Head(name))
              /\ Fnmatch(Tail(name), Tail(pat))

Repeat(c, n) == [i \in 1..n |-> c]

\* ---------------------------------------------------------------- clean_tag
AsciiAlnum ==
    {"a","b","c","d","e","f","g","h","i","j","k","l","m","n","o","p","q","r",
     "s","t","u","v","w","x","y","z",
     "A","B","C","D","E","F","G","H","I","J","K","L","M","N","O","P","Q","R",
     "S","T","U","V","W","X","Y","Z",
     "0","1","2","3","4","5","6","7","8","9"}

\* Characters outside ASCII for which str.isalnum() is true, such as U+00E9
\* (e with acute accent) and U+4E2D (a CJK ideograph); each is one character.
UnicodeAlnum == {"U+00E9", "U+4E2D"}

\* c.isalnum()
AlnumChars == AsciiAlnum \cup UnicodeAlnum

ValidChars == {"_", "-", "."}

\* one iteration of the loop of clean_tag: the character appended for c
CleanChar(c) == IF c \in AlnumChars \/ c \in ValidChars THEN c ELSE "_"

\* the loop of clean_tag
CleanAll(tag) == [i \in 1..Len(tag) |-> CleanChar(tag[i])]

clean_tag(tag) == SubSeq(CleanAll(tag), 1, Min(Len(tag), MaxTagLen))

\* s.replace(old, new) for single characters
Replace(s, old, new) == [i \in 1..Len(s) |-> IF s[i] = old THEN new ELSE s[i]]

\* Characters the inputs of clean_tag are made of.
TagChars == {"a", "Z", "7", "_", "-", ".", "/", " ", "U+00E9"}

\* ---------------------------------------------------------- configuration
\* self.name of the artifact (for an image: the name without its tag)
NAME == <<"n">>

A == <<"a">>
B == <<"b">>
C == <<"c", "/">>
D == <<"d">>

\* Endpoints a configuration can list under the fall-back key, in order.
Pool == <<A, B, C, D>>

\* Candidate endpoint lists handed to one call.
CandLists ==
    {SubSeq(Pool, i, j) : i \in 1..Min(MaxCands, Len(Pool)),
                          j \in 0..Min(MaxCands, Len(Pool))}
    \cup {<<NONE>>, <<EMPTY>>, <<NONE, A>>, <<A, NONE>>}

V1 == <<"1", ".", "2">>
V2 == <<"2">>
VTEMP == <<"t", "e", "m", "p", "_", "1">>

CallVersions == {NONE, V1, VTEMP}
OwnVersions == {NONE, V1, V2}

\* status codes an HTTP response can carry
StatusCodes == {HTTP_OK, HTTP_CREATED, 500}

\* ------------------------------------------------- engine status protocol
\* A line of a status stream is the set of keys of its JSON object; a blank
\* line is BLANK.
BLANK == {}

Lines ==
    {BLANK, {"status"}, {"status", "id"}, {"stream"}, {"error"},
     {"stream", "error"}, {"status", "error"}}

RECURSIVE SeqsUpTo(_, _)
SeqsUpTo(S, n) ==
    IF n = 0 THEN {<<>>}
    ELSE LET shorter == SeqsUpTo(S, n - 1)
         IN  shorter \cup {Append(s, x) : s \in shorter, x \in S}

Streams == SeqsUpTo(Lines, MaxStream)

\* Streams the engine answers a pull or a push with during a transfer call.
CallStreams == {<<>>, <<{"status"}>>, <<{"status", "id"}, {"error"}>>}

CarriesError(s) == \E i \in 1..Len(s) : "error" \in s[i]

\* ------------------------------------------------------------- outcomes
\* What one invocation ends with: success, RetryableFailure, or any other
\* exception.  cause names the raise statement; consumed counts the lines a
\* status stream check has read.
Ok == [cls |-> "Ok", cause |-> "none", consumed |-> 0]
OkAfter(n) == [cls |-> "Ok", cause |-> "none", consumed |-> n]
Retryable(c, n) == [cls |-> "Retryable", cause |-> c, consumed |-> n]
Fatal(c) == [cls |-> "Fatal", cause |-> c, consumed |-> 0]

\* One transport operation issued: op on ref (from src, where it has one).
Ev(op, ref, src) == [op |-> op, ref |-> ref, src |-> src]

\* ------------------------------------------------------- container engine
\* repository:tag as the engine names a local image
Ref(repo, tag) == repo \o <<":">> \o (IF tag = NONE THEN <<"l", "a", "t", "e", "s", "t">> ELSE tag)

\* client.api.tag(src, repo, tag): fails when src is not a local image
EngineTag(tags, src, repo, tag) ==
    IF src \in tags
    THEN [ok |-> TRUE, tags |-> tags \cup {Ref(repo, tag)}]
    ELSE [ok |-> FALSE, tags |-> tags]

\* client.api.remove_image(ref): fails when ref is not a local image
EngineRemove(tags, ref) ==
    IF ref \in tags
    THEN [ok |-> TRUE, tags |-> tags \ {ref}]
    ELSE [ok |-> FALSE, tags |-> tags]

\* ---------------------------------------------------- check_docker_stream
RECURSIVE CheckFrom(_, _)
CheckFrom(s, i) ==
    IF i > Len(s) THEN [error |-> FALSE, consumed |-> Len(s)]
    ELSE IF s[i] = BLANK THEN CheckFrom(s, i + 1)
    ELSE IF "error" \in s[i] THEN [error |-> TRUE, consumed |-> i]
    ELSE CheckFrom(s, i + 1)

\* the raise of check_docker_stream
StreamOutcome(chk) ==
    IF chk.error THEN Retryable("docker_error", chk.consumed)
    ELSE OkAfter(chk.consumed)

check_docker_stream(s) == StreamOutcome(CheckFrom(s, 1))

\* -------------------------------------------------------------- push_image
push_image_NoGet(imagename, push_tag, tags, s) ==
    [out |-> check_docker_stream(s),
     events |-> <<Ev("get", Ref(imagename, push_tag), EMPTY),
                  Ev("push", Ref(imagename, push_tag), EMPTY)>>]

push_image(imagename, push_tag, tags, s) ==
    IF push_tag = NONE
    THEN [out |-> Fatal("type_error"), events |-> <<>>]
    ELSE IF Ref(imagename, push_tag) \notin tags
    THEN [out |-> Fatal("image_not_found"),
          events |-> <<Ev("get", Ref(imagename, push_tag), EMPTY)>>]
    ELSE [out |-> check_docker_stream(s),
          events |-> <<Ev("get", Ref(imagename, push_tag), EMPTY),
                       Ev("push", Ref(imagename, push_tag), EMPTY)>>]

\* What one invocation of a wrapped operation leaves behind.
Res(out, events, tags, files) ==
    [out |-> out, events |-> events, tags |-> tags, files |-> files]

\* ------------------------------------------------------------------- Image
\* Image.url
Image_url(ver, reg, own) ==
    LET v == IF ver = NONE THEN own ELSE ver
    IN  IF Truthy(reg)
        THEN RStrip(reg) \o <<"/">> \o NAME \o <<":">> \o Fmt(v)
        ELSE NAME \o <<":">> \o Fmt(v)

pull_image_TagFirst(remoteimage, imagename, tag, tags, s) ==
    LET chk == check_docker_stream(s)
        pulled == tags \cup {remoteimage}
        t == EngineTag(pulled, remoteimage, imagename, tag)
    IN  [out |-> chk,
         events |-> <<Ev("pull", remoteimage, EMPTY),
                      Ev("tag", Ref(imagename, tag), remoteimage),
                      Ev("get", Ref(imagename, tag), EMPTY)>>,
         tags |-> t.tags]

\* Image.pull_image: pull, check the stream, tag imagename:tag
pull_image(remoteimage, imagename, tag, tags, s) ==
    LET chk == check_docker_stream(s)
        pulled == tags \cup {remoteimage}
        t == EngineTag(pulled, remoteimage, imagename, tag)
    IN  IF chk.cls # "Ok"
        THEN [out |-> chk, events |-> <<Ev("pull", remoteimage, EMPTY)>>,
              tags |-> tags]
        ELSE [out |-> chk,
              events |-> <<Ev("pull", remoteimage, EMPTY),
                           Ev("tag", Ref(imagename, tag), remoteimage),
                           Ev("get", Ref(imagename, tag), EMPTY)>>,
              tags |-> t.tags]

\* Image.download, one invocation with docker_image_registry = reg
Image_download(ver, reg, own, tags, files, s) ==
    IF ver = NONE /\ own = NONE
    THEN Res(Fatal("no_version"), <<>>, tags, files)
    ELSE IF reg = NONE
    THEN Res(Fatal("no_endpoint"), <<>>, tags, files)
    ELSE LET tag == OrElse(ver, own)
             remoteimage == reg \o <<"/">> \o NAME \o <<":">> \o Fmt(tag)
             p == pull_image(remoteimage, NAME, tag, tags, s)
             t == EngineTag(p.tags, remoteimage, NAME, own)
         IN  IF p.out.cls # "Ok" THEN Res(p.out, p.events, p.tags, files)
             ELSE IF tag # own
             THEN Res(p.out,
                      Append(p.events, Ev("tag", Ref(NAME, own), remoteimage)),
                      t.tags, files)
             ELSE Res(p.out, p.events, p.tags, files)

\* The finally clause of Image.upload: the cleanup runs whenever the registry
\* is truthy, and an exception it raises replaces the one in flight.
UploadCleanup_OnSuccessOnly(reg, fullname, tried) ==
    LET rm == EngineRemove(tried.tags, fullname)
    IN  IF Truthy(reg) /\ tried.out.cls = "Ok"
        THEN [out |-> IF rm.ok THEN tried.out ELSE Fatal("remove_failed"),
              events |-> Append(tried.events, Ev("remove_image", fullname, EMPTY)),
              tags |-> rm.tags]
        ELSE tried

UploadCleanup_WholeImage(reg, fullname, tried) ==
    LET rm == EngineRemove(tried.tags, fullname)
    IN  IF Truthy(reg)
        THEN [out |-> IF rm.ok THEN tried.out ELSE Fatal("remove_failed"),
              events |-> Append(tried.events, Ev("remove_image", fullname, EMPTY)),
              tags |-> IF rm.ok THEN {} ELSE tried.tags]
        ELSE tried

UploadCleanup(reg, fullname, tried) ==
    LET rm == EngineRemove(tried.tags, fullname)
    IN  IF Truthy(reg)
        THEN [out |-> IF rm.ok THEN tried.out ELSE Fatal("remove_failed"),
              events |-> Append(tried.events, Ev("remove_image", fullname, EMPTY)),
              tags |-> rm.tags]
        ELSE tried

\* The try block of Image.upload: re-tag under the registry, then push.
UploadTry(reg, local_fullname, upload_name, upload_tag, tags, s) ==
    LET t == EngineTag(tags, local_fullname, upload_name, upload_tag)
        tagEv == <<Ev("tag", Ref(upload_name, upload_tag), local_fullname)>>
        p == push_image(upload_name, upload_tag,
                        IF Truthy(reg) THEN t.tags ELSE tags, s)
    IN  IF Truthy(reg) /\ ~t.ok
        THEN [out |-> Fatal("tag_failed"), events |-> tagEv, tags |-> tags]
        ELSE [out |-> p.out,
              events |-> (IF Truthy(reg) THEN tagEv ELSE <<>>) \o p.events,
              tags |-> IF Truthy(reg) THEN t.tags ELSE tags]

Image_upload_FullnameUnstripped(ver, reg, own, tags, files, s) ==
    IF reg = NONE
    THEN Res(Fatal("no_endpoint"), <<>>, tags, files)
    ELSE LET local_fullname == Image_url(own, NONE, own)
             upload_tag == OrElse(ver, own)
             upload_name == RStrip(reg) \o <<"/">> \o NAME
             fullname == reg \o <<"/">> \o NAME \o <<":">> \o Fmt(upload_tag)
             tried == UploadTry(reg, local_fullname, upload_name, upload_tag,
                                tags, s)
             r == UploadCleanup(reg, fullname, tried)
         IN  Res(r.out, r.events, r.tags, files)

\* Image.upload, one invocation with docker_image_registry = reg
Image_upload(ver, reg, own, tags, files, s) ==
    IF reg = NONE
    THEN Res(Fatal("no_endpoint"), <<>>, tags, files)
    ELSE LET local_fullname == Image_url(own, NONE, own)
             upload_tag == OrElse(ver, own)
             upload_name == RStrip(reg) \o <<"/">> \o NAME
             fullname == upload_name \o <<":">> \o Fmt(upload_tag)
             tried == UploadTry(reg, local_fullname, upload_name, upload_tag,
                                tags, s)
             r == UploadCleanup(reg, fullname, tried)
         IN  Res(r.out, r.events, r.tags, files)

\* ----------------------------------------------------------------- Generic
\* self.data.get('filename'): the configured glob pattern
PATTERN == <<"o", "*">>

F1 == <<"o", "1">>
F2 == <<"o", "2">>

\* What glob.glob(PATTERN) can return on the local filesystem.
GlobResults == {<<>>, <<F1>>, <<F1, F2>>}

U1 == <<"h", "/", "o", "1">>
U2 == <<"h", "/", "o", "2">>
UX == <<"h", "/", "x">>

\* What the property-search API can answer: the uri of each result, in order.
SearchResults == {<<>>, <<UX>>, <<UX, U2, U1>>, <<U1, U2>>}

get_filename_Retryable(matches) ==
    IF Len(matches) # 1
    THEN [ok |-> FALSE, out |-> Retryable("no_file", 0), name |-> EMPTY]
    ELSE [ok |-> TRUE, out |-> Ok, name |-> matches[1]]

\* Generic.get_filename
get_filename(matches) ==
    IF Len(matches) # 1
    THEN [ok |-> FALSE,
          out |-> IF matches # <<>> THEN Fatal("too_many_files")
                  ELSE Fatal("no_file"),
          name |-> EMPTY]
    ELSE [ok |-> TRUE, out |-> Ok, name |-> matches[1]]

FirstMatch_Last(uris, i) ==
    LET hits == {j \in i..Len(uris) : Fnmatch(Basename(uris[j]), PATTERN)}
    IN  IF hits = {} THEN 0 ELSE CHOOSE j \in hits : \A k \in hits : k <= j

RECURSIVE FirstMatch(_, _)
\* the for loop of Generic.url: index of the first matching uri, 0 if none
FirstMatch(uris, i) ==
    IF i > Len(uris) THEN 0
    ELSE IF Fnmatch(Basename(uris[i]), PATTERN) THEN i
    ELSE FirstMatch(uris, i + 1)

\* Generic.url
Generic_url(ver, gurl, uris, matches) ==
    LET safe_url == RStrip(gurl)
        k == RFind(safe_url)
        repo == SubSeq(safe_url, k + 1, Len(safe_url))
        api == (IF k = 0 THEN SubSeq(safe_url, 1, Len(safe_url) - 1)
                ELSE SubSeq(safe_url, 1, k - 1)) \o <<"/api/search/prop">>
        m == FirstMatch(uris, 1)
        f == get_filename(matches)
    IN  IF Truthy(ver) /\ Truthy(gurl)
        THEN [ok |-> m # 0,
              out |-> IF m # 0 THEN Ok ELSE Fatal("version_not_found"),
              url |-> IF m # 0 THEN uris[m] ELSE EMPTY,
              events |-> <<Ev("search", api, repo \o <<";">> \o ver)>>]
        ELSE IF Truthy(gurl)
        THEN [ok |-> FALSE, out |-> Fatal("unbound_local"), url |-> EMPTY,
              events |-> <<>>]
        ELSE [ok |-> f.ok, out |-> f.out, url |-> f.name, events |-> <<>>]

DownloadStatus_Fatal(status) ==
    IF status # HTTP_OK THEN Fatal("http_status") ELSE Ok

\* the status check of Generic.download
DownloadStatus(status) ==
    IF status # HTTP_OK THEN Retryable("http_status", 0) ELSE Ok

\* Generic.download, one invocation with generic_url = gurl
Generic_download(ver, gurl, own, tags, files, uris, matches, status) ==
    LET u == Generic_url(OrElse(ver, own), gurl, uris, matches)
        st == DownloadStatus(status)
        get == Append(u.events, Ev("GET", u.url, EMPTY))
    IN  IF ~u.ok THEN Res(u.out, u.events, tags, files)
        ELSE IF ~Truthy(gurl)
        THEN Res(Fatal("missing_schema"), u.events, tags, files)
        ELSE IF st.cls # "Ok" THEN Res(st, get, tags, files)
        ELSE Res(st, Append(get, Ev("write", Basename(u.url), u.url)),
                 tags, files \cup {Basename(u.url)})

UploadStatus_Fatal(status) ==
    IF status # HTTP_CREATED THEN Fatal("http_status") ELSE Ok

\* the status check of Generic.upload
UploadStatus(status) ==
    IF status # HTTP_CREATED THEN Retryable("http_status", 0) ELSE Ok

UploadUrl_Stripped(gurl, local_filename, ver) ==
    RStrip(gurl) \o <<"/">>
         \o (IF Truthy(ver) /\ StartsWith(ver, <<"t", "e", "m", "p", "_">>)
             THEN <<"t", "e", "m", "p", "/">> ELSE <<>>)
         \o local_filename
         \o (IF Truthy(ver) THEN <<";", "v", "e", "r", "s", "i", "o", "n", "=">> \o ver
             ELSE <<>>)

\* upload_url of Generic.upload
UploadUrl(gurl, local_filename, ver) ==
    gurl \o <<"/">>
         \o (IF Truthy(ver) /\ StartsWith(ver, <<"t", "e", "m", "p", "_">>)
             THEN <<"t", "e", "m", "p", "/">> ELSE <<>>)
         \o local_filename
         \o (IF Truthy(ver) THEN <<";", "v", "e", "r", "s", "i", "o", "n", "=">> \o ver
             ELSE <<>>)

UploadNoEndpoint_Retryable == Retryable("no_endpoint", 0)

\* the raise of Generic.upload when generic_url is not given
UploadNoEndpoint == Fatal("no_endpoint")

\* Generic.upload, one invocation with generic_url = gurl
Generic_upload(ver, gurl, tags, files, matches, status) ==
    LET f == get_filename(matches)
    IN  IF ~Truthy(gurl) THEN Res(UploadNoEndpoint, <<>>, tags, files)
        ELSE IF ~f.ok THEN Res(f.out, <<>>, tags, files)
        ELSE Res(UploadStatus(status),
                 <<Ev("PUT", UploadUrl(gurl, f.name, ver), f.name)>>,
                 tags, files)

\* ------------------------------------------------------------------- build
\* The version-control states a build can find.
LongBranch == Repeat("b", MaxTagLen - 3)

Branches == {<<"m">>, <<"f", "/", "o">>, <<"r", "+", "1">>, LongBranch}
Commits == {<<"a", "b", "1">>, <<"0", "f">>}

VcsStates ==
    [detached : BOOLEAN, branch : Branches, commit : Commits, dirty : BOOLEAN]

BRANCH_ == <<"b", "r", "a", "n", "c", "h", "_">>
LAST_REF_ == <<"l", "a", "s", "t", "_", "r", "e", "f", "_">>
REF_ == <<"r", "e", "f", "_">>

\* The image the engine holds under `name` once docker.api.build has run: a
\* build whose stream reports an error produces none.
EngineBuild(tags, s) ==
    IF CarriesError(s) THEN tags ELSE tags \cup {Ref(NAME, NONE)}

\* errors of build_verbosly: the lines taken by the elif branch
BuildErrors(s) ==
    {i \in 1..Len(s) : "stream" \notin s[i] /\ "error" \in s[i]}

\* build_verbosly
build_verbosly(s, tags) ==
    LET built == EngineBuild(tags, s)
    IN  IF \E i \in 1..Len(s) : s[i] = BLANK
        THEN [out |-> Fatal("type_error"), tags |-> built,
              events |-> <<Ev("build", NAME, EMPTY)>>]
        ELSE IF BuildErrors(s) # {}
        THEN [out |-> Fatal("build_failed"), tags |-> built,
              events |-> <<Ev("build", NAME, EMPTY)>>]
        ELSE IF Ref(NAME, NONE) \notin built
        THEN [out |-> Fatal("image_not_found"), tags |-> built,
              events |-> <<Ev("build", NAME, EMPTY),
                           Ev("get", Ref(NAME, NONE), EMPTY)>>]
        ELSE [out |-> OkAfter(Len(s)), tags |-> built,
              events |-> <<Ev("build", NAME, EMPTY),
                           Ev("get", Ref(NAME, NONE), EMPTY)>>]

DerivedTags_BranchWhenDetached(v) ==
    <<clean_tag(BRANCH_ \o Replace(v.branch, "/", "_"))>>
    \o (IF v.dirty THEN <<clean_tag(LAST_REF_ \o v.commit)>>
        ELSE <<clean_tag(REF_ \o v.commit)>>)

\* The tags build_image_from_local_repo applies, in the order it applies them.
DerivedTags(v) ==
    (IF v.detached THEN <<>>
     ELSE <<clean_tag(BRANCH_ \o Replace(v.branch, "/", "_"))>>)
    \o (IF v.dirty THEN <<clean_tag(LAST_REF_ \o v.commit)>>
        ELSE <<clean_tag(REF_ \o v.commit)>>)

\* build_image_from_local_repo
build_image_from_local_repo(v, s, tags, files) ==
    LET b == build_verbosly(s, tags)
        applied == DerivedTags(v)
    IN  IF b.out.cls # "Ok" THEN Res(b.out, b.events, b.tags, files)
        ELSE Res(b.out,
                 b.events \o [i \in 1..Len(applied) |->
                                 Ev("tag", Ref(NAME, applied[i]), Ref(NAME, NONE))],
                 b.tags \cup {Ref(NAME, applied[i]) : i \in 1..Len(applied)},
                 files)

\* ---------------------------------------------------------------- policies
\* windlass.api.fall_back: what the pass over the candidates does after the
\* wrapped operation has ended with `out` on candidate i of n.
\*   "return": the pass ends with out;  "next": candidate i + 1 is tried.
fall_back(first_only, n, i, out) ==
    IF out.cls = "Ok" THEN "return"
    ELSE IF first_only \/ i >= n THEN "return"
    ELSE "next"

\* windlass.api.retry: whether the wrapped operation is invoked again after
\* attempt number `attempt` has ended with `out`.
retry(max_retries, attempt, out) ==
    out.cls = "Retryable" /\ attempt < max_retries

FirstOnly_Never(k) == FALSE

FirstOnly_Swapped(k) == k \in {"Generic.download", "Image.download"}

FirstOnly_Always(k) == TRUE

\* first_only of the fall_back decorator of each operation
FirstOnly(k) == k \in {"Generic.upload", "Image.upload"}

\* ------------------------------------------------------------------- state
VARIABLES
    kind,        \* the operation this run performs
    cands,       \* the candidate endpoints configured under the fall-back key
    version,     \* the version argument of the call (NONE when not given)
    own,         \* self.version of the artifact
    bound,       \* max_retries of the retry policy
    tagIn,       \* the argument of a clean_tag call
    vcs,         \* the version-control state a build finds
    pc,          \* "running" until the call has returned or raised
    attempt,     \* number of the current pass of the retry policy, from 1
    idx,         \* index in cands of the candidate the next invocation gets
    passLog,     \* invocations of the wrapped operation in the latest pass
    events,      \* transport operations issued by the latest invocation
    stream,      \* the status stream the engine answered last
    http,        \* what the filesystem and the HTTP server answered last
    result,      \* what the call returned or raised
    calls,       \* invocations of the wrapped operation so far
    localTags,   \* image references the engine holds locally
    localFiles,  \* files written to the working directory
    tagOut       \* what clean_tag returned

config == <<kind, cands, version, own, bound, vcs, tagIn>>
vars == <<kind, cands, version, own, bound, vcs, tagIn, pc, attempt, idx,
          passLog, events, stream, http, result, calls, localTags, localFiles,
          tagOut>>

TransferKinds ==
    {"Generic.download", "Generic.upload", "Image.download", "Image.upload"}

NoVcs == [detached |-> TRUE, branch |-> <<"m">>, commit |-> <<"0", "f">>,
          dirty |-> FALSE]
NoHttp == [status |-> 0, uris |-> <<>>, matches |-> <<>>]
NoResult == [out |-> [cls |-> "None", cause |-> "none", consumed |-> 0],
             at |-> <<0, 0>>]

\* The local tags an upload can find: the artifact's own name:version, from a
\* build or a download, and registry/name:tag, which an earlier download from
\* that registry leaves behind.
UploadTagSets(cs, ver, w) ==
    IF cs # <<>> /\ cs[1] # NONE /\ Truthy(cs[1])
    THEN SUBSET {Ref(NAME, w), Image_url(OrElse(ver, w), cs[1], w)}
    ELSE {{}, {Ref(NAME, w)}}

InitTransfer ==
    /\ kind \in TransferKinds
    /\ cands \in CandLists
    /\ version \in CallVersions
    /\ bound \in 1..MaxRetries
    /\ own \in IF kind = "Generic.upload" THEN {NONE}
               ELSE IF kind = "Generic.download" THEN {NONE, V1}
               ELSE OwnVersions
    /\ localTags \in IF kind = "Image.upload" THEN UploadTagSets(cands, version, own)
                     ELSE {{}}
    /\ stream = <<>>
    /\ vcs = NoVcs
    /\ tagIn = <<>>

InitPush ==
    /\ kind = "push_image"
    /\ cands = <<A>>
    /\ version \in {V1, V2}
    /\ bound = 1
    /\ own = V1
    /\ localTags \in {{}, {Ref(A \o <<"/">> \o NAME, V1)}}
    /\ stream \in Streams
    /\ vcs = NoVcs
    /\ tagIn = <<>>

InitBuild ==
    /\ kind = "build"
    /\ cands = <<>>
    /\ version = NONE
    /\ bound = 1
    /\ own = NONE
    /\ localTags \in {{}, {Ref(NAME, NONE)}}
    /\ stream \in Streams
    /\ vcs \in VcsStates
    /\ tagIn = <<>>

\* Arguments of clean_tag: short strings over TagChars, alone or after a
\* prefix that brings the length to the cap and beyond.
TagInputs ==
    {pre \o t : pre \in {<<>>, Repeat("x", MaxTagLen - 2), Repeat("/", MaxTagLen - 1)},
                t \in SeqsUpTo(TagChars, MaxTagIn)}

InitCleanTag ==
    /\ kind = "clean_tag"
    /\ cands = <<>>
    /\ version = NONE
    /\ bound = 1
    /\ own = NONE
    /\ localTags = {}
    /\ stream = <<>>
    /\ vcs = NoVcs
    /\ tagIn \in TagInputs

Init ==
    /\ InitTransfer \/ InitPush \/ InitBuild \/ InitCleanTag
    /\ tagOut = <<>>
    /\ pc = "running"
    /\ attempt = 1
    /\ idx = 1
    /\ passLog = <<>>
    /\ events = <<>>
    /\ http = NoHttp
    /\ result = NoResult
    /\ calls = 0
    /\ localFiles = {}

AfterInvocation_Uncounted(out) ==
    IF fall_back(FirstOnly(kind), Len(cands), idx, out) = "next"
    THEN [pc |-> "running", attempt |-> attempt, idx |-> idx + 1]
    ELSE IF retry(bound, attempt, out)
    THEN [pc |-> "running", attempt |-> attempt, idx |-> 1]
    ELSE [pc |-> "done", attempt |-> attempt, idx |-> idx]

\* retry()(fall_back(key, first_only=...)(operation)): where control goes
\* after the wrapped operation has ended with `out`.
AfterInvocation(out) ==
    IF fall_back(FirstOnly(kind), Len(cands), idx, out) = "next"
    THEN [pc |-> "running", attempt |-> attempt, idx |-> idx + 1]
    ELSE IF retry(bound, attempt, out)
    THEN [pc |-> "running", attempt |-> attempt + 1, idx |-> 1]
    ELSE [pc |-> "done", attempt |-> attempt, idx |-> idx]

\* One invocation of the wrapped operation, which left r behind.
Invoked(r) ==
    LET nxt == AfterInvocation(r.out)
        entry == [ep |-> cands[idx], out |-> r.out, at |-> <<attempt, idx>>]
    IN  /\ pc' = nxt.pc
        /\ attempt' = nxt.attempt
        /\ idx' = nxt.idx
        /\ result' = IF nxt.pc = "done"
                     THEN [out |-> r.out, at |-> <<attempt, idx>>]
                     ELSE result
        /\ passLog' = IF idx = 1 THEN <<entry>> ELSE Append(passLog, entry)
        /\ events' = r.events
        /\ localTags' = r.tags
        /\ localFiles' = r.files
        /\ calls' = calls + 1
        /\ UNCHANGED <<config, tagOut>>

\* fall_back with no candidate configured: ConfigurationError, the wrapped
\* operation is not invoked.
NoCandidate ==
    /\ pc = "running"
    /\ kind \in TransferKinds
    /\ cands = <<>>
    /\ pc' = "done"
    /\ result' = [out |-> Fatal("ConfigurationError"), at |-> <<attempt, 0>>]
    /\ UNCHANGED <<config, attempt, idx, passLog, events, stream, http, calls,
                   localTags, localFiles, tagOut>>

GenericDownload ==
    /\ pc = "running"
    /\ kind = "Generic.download"
    /\ cands # <<>>
    /\ \E uris \in SearchResults, matches \in GlobResults, status \in StatusCodes :
          /\ http' = [status |-> status, uris |-> uris, matches |-> matches]
          /\ Invoked(Generic_download(version, cands[idx], own, localTags,
                                      localFiles, uris, matches, status))
    /\ UNCHANGED stream

GenericUpload ==
    /\ pc = "running"
    /\ kind = "Generic.upload"
    /\ cands # <<>>
    /\ \E matches \in GlobResults, status \in StatusCodes :
          /\ http' = [status |-> status, uris |-> <<>>, matches |-> matches]
          /\ Invoked(Generic_upload(version, cands[idx], localTags, localFiles,
                                    matches, status))
    /\ UNCHANGED stream

ImageDownload ==
    /\ pc = "running"
    /\ kind = "Image.download"
    /\ cands # <<>>
    /\ \E s \in CallStreams :
          /\ stream' = s
          /\ Invoked(Image_download(version, cands[idx], own, localTags,
                                    localFiles, s))
    /\ UNCHANGED http

ImageUpload ==
    /\ pc = "running"
    /\ kind = "Image.upload"
    /\ cands # <<>>
    /\ \E s \in CallStreams :
          /\ stream' = s
          /\ Invoked(Image_upload(version, cands[idx], own, localTags,
                                  localFiles, s))
    /\ UNCHANGED http

\* push_image on the stream the engine answers with
PushImage ==
    /\ pc = "running"
    /\ kind = "push_image"
    /\ LET p == push_image(cands[1] \o <<"/">> \o NAME, version, localTags, stream)
       IN  Invoked(Res(p.out, p.events, localTags, localFiles))
    /\ UNCHANGED <<stream, http>>

\* Image.build of an image defined by a local context
Build ==
    /\ pc = "running"
    /\ kind = "build"
    /\ LET r == build_image_from_local_repo(vcs, stream, localTags, localFiles)
       IN  /\ pc' = "done"
           /\ result' = [out |-> r.out, at |-> <<1, 0>>]
           /\ events' = r.events
           /\ localTags' = r.tags
           /\ localFiles' = r.files
    /\ UNCHANGED <<config, attempt, idx, passLog, stream, http, calls, tagOut>>

\* clean_tag applied to its argument
CleanTag ==
    /\ pc = "running"
    /\ kind = "clean_tag"
    /\ pc' = "done"
    /\ tagOut' = clean_tag(tagIn)
    /\ UNCHANGED <<config, attempt, idx, passLog, events, stream, http, result,
                   calls, localTags, localFiles>>

Next ==
    \/ NoCandidate
    \/ GenericDownload
    \/ GenericUpload
    \/ ImageDownload
    \/ ImageUpload
    \/ PushImage
    \/ Build
    \/ CleanTag

Spec == Init /\ [][Next]_vars

TypeOK ==
    /\ pc \in {"running", "done"}
    /\ attempt \in 1..bound
    /\ calls \in 0..(MaxRetries * MaxCands)

\* ------------------------------------------------------------------ claims
\* The latest invocation of the wrapped operation.
Last == passLog[Len(passLog)]

Invocation == kind \in TransferKinds /\ passLog # <<>>

UploadKinds == {"Generic.upload", "Image.upload"}
DownloadKinds == {"Generic.download", "Image.download"}

\* Failures raised as RetryableFailure: a bad HTTP status, an error entry in
\* an engine status stream.
TransientCauses == {"http_status", "docker_error"}

\* The pass of the fall-back policy that Last belongs to is over.
PassOver ==
    \/ Last.out.cls = "Ok"
    \/ kind \in UploadKinds
    \/ Last.at[2] = Len(cands)

\* C1: retry exhaustion.  No call makes more than `bound` attempts; a call
\* that ends on a transient failure (bad HTTP status, error entry in a status
\* stream) has made exactly `bound` attempts, and what it raises is the
\* RetryableFailure of the last attempt, unchanged.
C1_RetryExhaustion ==
    /\ attempt <= bound
    /\ (Invocation /\ pc = "done" /\ Last.out.cause \in TransientCauses)
         => /\ result.out.cls = "Retryable"
            /\ result.out = Last.out
            /\ result.at = Last.at
            /\ Last.at[1] = bound

C1_Witness ==
    /\ kind = "Generic.download"
    /\ pc = "done"
    /\ bound = 3
    /\ attempt = 3
    /\ Len(cands) = 2
    /\ result.out.cls = "Retryable"
    /\ result.at = <<3, 2>>

C4_FullFallbackOrder ==
    (Invocation /\ kind \in DownloadKinds) =>
        /\ Len(passLog) <= Len(cands)
        /\ \A i \in 1..Len(passLog) :
              /\ passLog[i].ep = cands[i]
              /\ passLog[i].at = <<Last.at[1], i>>
              /\ i < Len(passLog) => passLog[i].out.cls # "Ok"
        /\ Last.out.cls = "Ok"
             => (pc = "done" /\ result.out = Last.out /\ result.at = Last.at)
        /\ (Last.out.cls # "Ok" /\ (pc = "done" \/ idx = 1))
             => Len(passLog) = Len(cands)

C4_Witness ==
    /\ kind = "Generic.download"
    /\ cands = <<A, B, C>>
    /\ pc = "done"
    /\ result.out.cls = "Ok"
    /\ Len(passLog) = 3
    /\ passLog[1].ep = A /\ passLog[1].out.cls # "Ok"
    /\ passLog[2].ep = B /\ passLog[2].out.cls # "Ok"
    /\ passLog[3].ep = C /\ passLog[3].out.cls = "Ok"

\* C5: first-only fallback.  In an upload every invocation, on every retry
\* attempt, gets the first candidate, and every transport operation (HTTP PUT,
\* engine tag, get, push, remove_image) addresses that candidate.
C5_FirstOnly ==
    (Invocation /\ kind \in UploadKinds) =>
        /\ \A i \in 1..Len(passLog) : passLog[i].ep = cands[1]
        /\ Last.at[2] = 1
        /\ \A i \in 1..Len(events) :
              /\ cands[1] # NONE
              /\ StartsWith(events[i].ref, RStrip(cands[1]) \o <<"/">>)

C5_Witness ==
    /\ kind = "Generic.upload"
    /\ cands = <<A, B, C>>
    /\ calls = 3
    /\ pc = "done"
    /\ result.out.cls = "Retryable"
    /\ events # <<>>

\* registry/name:tag, the reference an upload to registry reg re-tags, pushes
\* and removes.
UploadRef(reg) ==
    RStrip(reg) \o <<"/">> \o NAME \o <<":">> \o Fmt(OrElse(version, own))

EventsOf(op) == {i \in 1..Len(events) : events[i].op = op}

\* C6: Image.upload cleanup on all exit paths.  However an upload attempt
\* made with a registry ends (re-tag fails, local image missing, push stream
\* carries an error, push succeeds), remove_image is invoked exactly once, on
\* registry/name:tag, as the last engine operation of the attempt (after the
\* re-tag and the push), and registry/name:tag is not a local tag when the
\* attempt exits.
C6_UploadCleanup ==
    (Invocation /\ kind = "Image.upload" /\ Truthy(Last.ep)) =>
        /\ Cardinality(EventsOf("remove_image")) = 1
        /\ events[Len(events)].op = "remove_image"
        /\ events[Len(events)].ref = UploadRef(Last.ep)
        /\ events[1].op = "tag"
        /\ events[1].ref = UploadRef(Last.ep) \/ OrElse(version, own) = NONE
        /\ \A i \in EventsOf("push") : events[i].ref = UploadRef(Last.ep)
        /\ UploadRef(Last.ep) \notin localTags
        /\ localTags \subseteq {Ref(NAME, own)}

C6_Witness ==
    /\ kind = "Image.upload"
    /\ calls = 2
    /\ cands[1] = C
    /\ Last.out = Retryable("docker_error", 2)
    /\ Len(events) = 4
    /\ events[3].op = "push"
    /\ events[4].op = "remove_image"
    /\ localTags = {Ref(NAME, own)}

\* C7: push status stream.  push_image succeeds only when the image to push
\* exists locally, every line of the push stream has been consumed and none
\* carried an `error` key; a stream with an `error` line makes it raise
\* RetryableFailure; when the local image:tag does not exist it fails with a
\* non-retryable failure and engine push is not invoked.
C7_PushStream ==
    (kind = "push_image" /\ pc = "done") =>
        LET present == Ref(cands[1] \o <<"/">> \o NAME, version) \in localTags
        IN  /\ result.out.cls = "Ok"
                 => /\ present
                    /\ ~CarriesError(stream)
                    /\ result.out.consumed = Len(stream)
            /\ (present /\ CarriesError(stream)) => result.out.cls = "Retryable"
            /\ (present /\ ~CarriesError(stream)) => result.out.cls = "Ok"
            /\ present <=> EventsOf("push") # {}
            /\ ~present => result.out.cls = "Fatal"

C7_Witness ==
    /\ kind = "push_image"
    /\ pc = "done"
    /\ Len(stream) = 2
    /\ stream[1] = {"status", "id"}
    /\ stream[2] = {"status", "error"}
    /\ result.out = Retryable("docker_error", 2)
    /\ EventsOf("push") # {}

\* C8 as stated: whenever a line of the build stream carries an `error` key,
\* whatever other keys it carries, the build fails with a non-retryable
\* failure and no tag is applied.
C8_BuildErrorFatal ==
    (kind = "build" /\ pc = "done" /\ CarriesError(stream))
        => (result.out.cls = "Fatal" /\ EventsOf("tag") = {})

\* The invocation got no endpoint (for Image.download: or no version).
MissingEndpoint(e) ==
    \/ kind = "Generic.upload" /\ ~Truthy(e)
    \/ kind = "Image.upload" /\ e = NONE
    \/ kind = "Image.download" /\ (e = NONE \/ (version = NONE /\ own = NONE))

\* C9: missing endpoint is fatal and side-effect free.  Generic.upload with
\* no endpoint, Image.upload with no registry and Image.download with no
\* registry or no version fail with a non-retryable failure, having issued no
\* transport operation and changed no local tag or file; the failure is not
\* retried: once the pass raises it the call is over, and an upload has then
\* invoked the operation exactly once.
C9_MissingEndpointFatal ==
    (Invocation /\ MissingEndpoint(Last.ep)) =>
        /\ Last.out.cls = "Fatal"
        /\ events = <<>>
        /\ localFiles = {}
        /\ localTags \subseteq {Ref(NAME, own)}
        /\ PassOver
             => (pc = "done" /\ result.out = Last.out /\ result.at = Last.at)
        /\ kind \in UploadKinds => (calls = 1 /\ attempt = 1)

C9_Witness ==
    /\ kind = "Generic.upload"
    /\ cands = <<NONE>>
    /\ bound = 3
    /\ pc = "done"
    /\ calls = 1
    /\ events = <<>>
    /\ result.out = Fatal("no_endpoint")

AppliedTags == {events[i].ref : i \in EventsOf("tag")}

TagRef(prefix, x) == Ref(NAME, clean_tag(prefix \o x))

\* C10: tag derivation.  A successful build applies exactly: branch_<b with
\* '/' replaced by '_'> iff HEAD is not detached, last_ref_<h> iff the tree
\* is dirty, ref_<h> iff the tree is clean, each sanitized by clean_tag as a
\* whole; a failed build applies none.  A clean tree on branch f/o at commit
\* ab1 yields exactly branch_f_o and ref_ab1.
C10_TagDerivation ==
    (kind = "build" /\ pc = "done") =>
        IF result.out.cls # "Ok" THEN AppliedTags = {}
        ELSE LET branchTag == TagRef(BRANCH_, Replace(vcs.branch, "/", "_"))
                 lastRefTag == TagRef(LAST_REF_, vcs.commit)
                 refTag == TagRef(REF_, vcs.commit)
             IN  /\ AppliedTags \subseteq {branchTag, lastRefTag, refTag}
                 /\ branchTag \in AppliedTags <=> ~vcs.detached
                 /\ lastRefTag \in AppliedTags <=> vcs.dirty
                 /\ refTag \in AppliedTags <=> ~vcs.dirty
                 /\ AppliedTags \subseteq localTags
                 /\ vcs.detached
                      => \A t \in AppliedTags :
                            ~StartsWith(t, NAME \o <<":">> \o BRANCH_)
                 /\ (~vcs.detached /\ ~vcs.dirty /\ vcs.branch = <<"f", "/", "o">>
                       /\ vcs.commit = <<"a", "b", "1">>)
                      => AppliedTags =
                           {NAME \o <<":", "b", "r", "a", "n", "c", "h", "_", "f", "_", "o">>,
                            NAME \o <<":", "r", "e", "f", "_", "a", "b", "1">>}

C10_Witness ==
    /\ kind = "build"
    /\ pc = "done"
    /\ result.out.cls = "Ok"
    /\ ~vcs.detached
    /\ ~vcs.dirty
    /\ vcs.branch = <<"f", "/", "o">>
    /\ Cardinality(AppliedTags) = 2

\* The characters the claim allows in a tag: [A-Za-z0-9_.-]
TagAlphabet == AsciiAlnum \cup {"_", ".", "-"}

\* C11 as stated: the output of clean_tag contains only characters of
\* [A-Za-z0-9_.-], is at most 128 long, equals the first min(len, 128)
\* characters of the input with every character outside that set replaced by
\* '_', and clean_tag is idempotent.
C11_TagSanitized ==
    (kind = "clean_tag" /\ pc = "done") =>
        /\ Len(tagOut) = Min(Len(tagIn), 128)
        /\ \A i \in 1..Len(tagOut) :
              /\ tagOut[i] \in TagAlphabet
              /\ tagOut[i] = IF tagIn[i] \in TagAlphabet THEN tagIn[i] ELSE "_"
        /\ clean_tag(tagOut) = tagOut

\* The events of the latest invocation that are operation op, in order.
Issued(op) == SelectSeq(events, LAMBDA e : e.op = op)

\* The address C12 gives for the PUT of file f to endpoint e under version v.
PutAddress(e, f, v) ==
    LET temp == IF v # NONE /\ Len(v) >= 5 /\ SubSeq(v, 1, 5) = <<"t", "e", "m", "p", "_">>
                THEN <<"t", "e", "m", "p", "/">> ELSE <<>>
        suffix == IF v # NONE THEN <<";", "v", "e", "r", "s", "i", "o", "n", "=">> \o v
                  ELSE <<>>
    IN  e \o <<"/">> \o temp \o f \o suffix

\* A Generic.upload invocation that reached its PUT.
PutIssued == kind = "Generic.upload" /\ Invocation /\ Issued("PUT") # <<>>

\* C12: the PUT of Generic.upload goes to exactly
\* e + '/' + ('temp/' iff v starts with 'temp_') + f + (';version=' + v iff a
\* version is given); status 201 is success, any other status raises
\* RetryableFailure, which is retried up to the bound and then raised.
C12_UploadAddress ==
    PutIssued =>
        /\ Len(Issued("PUT")) = 1
        /\ Issued("PUT")[1].ref = PutAddress(Last.ep, http.matches[1], version)
        /\ (http.status = 201) = (Last.out.cls = "Ok")
        /\ (http.status # 201) = (Last.out.cls = "Retryable")
        /\ (Last.out.cls = "Retryable" /\ Last.at[1] < bound) =>
              (pc = "running" /\ attempt = Last.at[1] + 1)
        /\ (Last.out.cls = "Retryable" /\ Last.at[1] = bound) =>
              (pc = "done" /\ result.out = Last.out /\ calls = bound)
        /\ Last.out.cls = "Ok" => (pc = "done" /\ result.out = Last.out)

\* a temp_ version uploaded with status 201 to an endpoint that ends in '/',
\* after an earlier attempt was refused
C12_Witness ==
    /\ PutIssued
    /\ version = VTEMP
    /\ Last.ep = C
    /\ Last.out.cls = "Ok"
    /\ Last.at[1] = 2
    /\ Issued("PUT")[1].ref =
          <<"c", "/", "/", "t", "e", "m", "p", "/">> \o F1
             \o <<";", "v", "e", "r", "s", "i", "o", "n", "=">> \o VTEMP

\* C13: a Generic.download with an endpoint but no version, neither given to
\* the call nor carried by the artifact, makes no property-search query,
\* resolves a direct address under that endpoint and issues the GET for it;
\* it does not fail before the GET is issued.
C13_DirectDownload ==
    (/\ kind = "Generic.download"
     /\ Invocation
     /\ Truthy(Last.ep)
     /\ ~Truthy(OrElse(version, own))) =>
        /\ Issued("search") = <<>>
        /\ Len(Issued("GET")) = 1
        /\ StartsWith(Issued("GET")[1].ref, Last.ep)

\* C14: full fallback when every candidate fails.  A download that ends in
\* failure has tried every candidate, in list order, and raises the failure
\* seen on the last candidate, not the first one's and not a replacement; with
\* an empty candidate list the wrapped operation is never invoked and the
\* call fails with ConfigurationError.
C14_AllCandidatesFail ==
    /\ (/\ kind \in DownloadKinds
        /\ cands # <<>>
        /\ pc = "done"
        /\ result.out.cls # "Ok") =>
           /\ Len(passLog) = Len(cands)
           /\ \A i \in 1..Len(cands) :
                 /\ passLog[i].ep = cands[i]
                 /\ passLog[i].at[2] = i
                 /\ passLog[i].out.cls # "Ok"
           /\ result.out = passLog[Len(cands)].out
           /\ result.at[2] = Len(cands)
    /\ (kind \in TransferKinds /\ cands = <<>> /\ pc = "done") =>
           /\ calls = 0
           /\ passLog = <<>>
           /\ events = <<>>
           /\ result.out = Fatal("ConfigurationError")

\* the first two candidates fail for one reason, the third for another, and
\* the call raises the third one's
C14_Witness ==
    /\ kind = "Generic.download"
    /\ pc = "done"
    /\ cands = <<A, B, C>>
    /\ Len(passLog) = 3
    /\ passLog[1].out.cause = "version_not_found"
    /\ passLog[2].out.cause = "version_not_found"
    /\ passLog[3].out.cause = "http_status"
    /\ result.out = passLog[3].out

\* An Image.download invocation that reached the pull: it had a registry and
\* a tag to ask for.
Pulled == kind = "Image.download" /\ Invocation /\ Issued("pull") # <<>>

\* The tag an Image.download asks for.
AskedTag == IF Truthy(version) THEN version ELSE own

\* C15: Image download addressing.  A successful Image.download of tag t from
\* registry r pulled exactly r/name:t and tagged the image name:t locally,
\* and, iff t differs from the artifact's own version w, name:w as well; when
\* the pull stream carries an error the invocation raises RetryableFailure and
\* creates no local tag.
C15_DownloadAddressing ==
    /\ (kind = "Image.download" /\ Invocation /\ Last.out.cls = "Ok") =>
          /\ Len(Issued("pull")) = 1
          /\ Issued("pull")[1].ref = Last.ep \o <<"/">> \o NAME \o <<":">> \o AskedTag
          /\ Issued("tag")[1].ref = NAME \o <<":">> \o AskedTag
          /\ NAME \o <<":">> \o AskedTag \in localTags
          /\ AskedTag # own =>
                /\ Len(Issued("tag")) = 2
                /\ Issued("tag")[2].ref = Ref(NAME, own)
                /\ Ref(NAME, own) \in localTags
          /\ AskedTag = own => Len(Issued("tag")) = 1
          /\ \A i \in 1..Len(Issued("tag")) :
                Issued("tag")[i].src = Issued("pull")[1].ref
    /\ (Pulled /\ CarriesError(stream)) =>
          /\ Last.out.cls = "Retryable"
          /\ Issued("tag") = <<>>
          /\ localTags = {}
    /\ Pulled => (CarriesError(stream) \/ Last.out.cls = "Ok")

\* version 1.2 of an artifact whose own version is 2, from a registry that
\* ends in '/', after the first registry's pull stream carried an error
C15_Witness ==
    /\ Pulled
    /\ cands = <<B, C>>
    /\ version = V1
    /\ own = V2
    /\ Len(passLog) = 2
    /\ passLog[1].out.cause = "docker_error"
    /\ Last.out.cls = "Ok"
    /\ localTags = {C \o <<"/">> \o NAME \o <<":">> \o V1, Ref(NAME, V1), Ref(NAME, V2)}

\* A Generic.download invocation by version: it had an endpoint and a version,
\* and entry number i of the search answer is one whose basename matches the
\* artifact's filename pattern.
ByVersion(i) ==
    /\ kind = "Generic.download"
    /\ Invocation
    /\ Truthy(Last.ep)
    /\ Truthy(OrElse(version, own))
    /\ i \in 1..Len(http.uris)
    /\ Fnmatch(Basename(http.uris[i]), PATTERN)

\* C16: Generic download by version.  With a version and an endpoint the GET
\* goes to the uri of the first entry, in the order the search API answered,
\* whose basename matches the filename pattern; a local file named after the
\* remote basename is written iff the GET returned 200; any other status
\* raises RetryableFailure and no local file is written.
C16_DownloadByVersion ==
    \A i \in 1..Len(http.uris) :
        (ByVersion(i) /\ \A j \in 1..(i - 1) : ~ByVersion(j)) =>
            /\ Len(Issued("search")) = 1
            /\ Len(Issued("GET")) = 1
            /\ Issued("GET")[1].ref = http.uris[i]
            /\ http.status = 200 =>
                  /\ Last.out.cls = "Ok"
                  /\ Len(Issued("write")) = 1
                  /\ Issued("write")[1].ref = Basename(http.uris[i])
                  /\ Basename(http.uris[i]) \in localFiles
            /\ http.status # 200 =>
                  /\ Last.out.cls = "Retryable"
                  /\ Issued("write") = <<>>
                  /\ localFiles = {}

\* the search answers x, o2, o1 in that order: o2 is fetched and written
C16_Witness ==
    /\ ByVersion(2)
    /\ ByVersion(3)
    /\ ~ByVersion(1)
    /\ http.status = 200
    /\ localFiles = {F2}
    /\ Issued("GET")[1].ref = U2

\* C17 as stated: the fall-back policy wraps the retry-wrapped operation.  In
\* a download, when another invocation follows the latest one it is never on
\* an earlier candidate (the endpoints seen are a^i b^j c^k), and after a
\* RetryableFailure with attempts left it is on the same candidate again.
C17_RetryPerCandidate ==
    (kind \in DownloadKinds /\ Invocation /\ pc = "running") =>
        /\ idx >= Last.at[2]
        /\ (Last.out.cls = "Retryable" /\ Last.at[1] < bound) => idx = Last.at[2]

\* An Image.upload invocation that reached the engine's push.
Pushed == kind = "Image.upload" /\ Invocation /\ Issued("push") # <<>>

\* C18: the outcome of an Image.upload attempt that pushed is decided by the
\* push alone.  When the push stream carries an error entry the attempt ends
\* with that RetryableFailure, which the cleanup on the exit path does not
\* replace, and the retry policy attempts the upload again while attempts are
\* left; when the push stream carries none the attempt succeeds.
C18_PushDecides ==
    Pushed =>
        /\ CarriesError(stream) =>
              /\ Last.out.cls = "Retryable"
              /\ Last.out.cause = "docker_error"
              /\ Last.at[1] < bound =>
                    (pc = "running" /\ attempt = Last.at[1] + 1 /\ idx = 1)
              /\ Last.at[1] = bound => (pc = "done" /\ result.out = Last.out)
        /\ ~CarriesError(stream) =>
              /\ Last.out.cls = "Ok"
              /\ pc = "done"
              /\ result.out = Last.out

\* a push to a registry ending in '/' fails on its stream, the cleanup has
\* removed the registry tag, and another attempt is due
C18_Witness ==
    /\ Pushed
    /\ Last.ep = C
    /\ CarriesError(stream)
    /\ events[Len(events)].op = "remove_image"
    /\ Last.out.cls = "Retryable"
    /\ pc = "running"

\* C19 as stated: an upload attempt leaves the set of local tags as it found
\* it.
C19_TagsUnchanged ==
    [][kind = "Image.upload" => localTags' = localTags]_vars

\* C19: Image.upload never removes or re-points the artifact's own local tag
\* name:<own version>.  Every upload attempt leaves the local tags as it found
\* them except registry/name:tag, which is absent afterwards whether or not
\* it was there before; no tag or remove_image operation is on another
\* reference.
C19_OwnTagKept ==
    [][(kind = "Image.upload" /\ cands # <<>>) =>
          /\ localTags' = localTags \ {UploadRef(cands[1])}
          /\ (Ref(NAME, own) \in localTags') = (Ref(NAME, own) \in localTags)
          /\ \A i \in 1..Len(events') :
                events'[i].op \in {"tag", "remove_image"} =>
                    /\ events'[i].ref # Ref(NAME, own)
                    /\ StartsWith(events'[i].ref, RStrip(cands[1]) \o <<"/">>)]_vars

\* a second upload attempt has pushed and cleaned up, and the artifact's own
\* tag is still the only local one
C19_Witness ==
    /\ Pushed
    /\ calls = 2
    /\ Last.out.cls = "Ok"
    /\ events[Len(events)].op = "remove_image"
    /\ localTags = {Ref(NAME, own)}

\* The number of invocations C20 allows a call.
MaxInvocations ==
    IF kind \in DownloadKinds THEN bound * Len(cands) ELSE bound

\* C20: bounded attempts and termination.  Every transport call returns, so
\* each step of a download or upload call is one complete invocation of the
\* wrapped operation (or the ConfigurationError that ends a call without
\* candidates).  Invocations come one at a time, a call that has not ended
\* can always take its next step, and the invocations never exceed
\* (retry bound) x (number of candidates) for a download and (retry bound)
\* for an upload: the call ends within that many steps.
C20_BoundedTermination ==
    /\ [](kind \in TransferKinds => calls <= MaxInvocations)
    /\ [](kind \in TransferKinds =>
             /\ pc = "running" => ENABLED Next
             /\ (pc = "running" /\ cands # <<>>) => calls < MaxInvocations
             /\ pc = "done" => ~ENABLED Next)
    /\ [][(kind \in TransferKinds) =>
             \/ calls' = calls + 1
             \/ cands = <<>> /\ calls' = calls /\ pc' = "done"]_vars

\* a download over three candidates that used every invocation it may
C20_Witness ==
    /\ kind = "Image.download"
    /\ pc = "done"
    /\ Len(cands) = 3
    /\ bound = 3
    /\ calls = 9

==========================================================================
